---- MODULE Spec2Model ----
(***************************************************************************)
(* A model of the two agent demonstration scripts, agent.py and            *)
(* agent_final.py: the Agent record (name, role, message_inbox), the       *)
(* AssistantAgent dictionary lookup, the weather lookup of agent_final.py  *)
(* with its single suspension point, the KnowledgeGraphAgent neighbour     *)
(* query, and the main routine of agent_final.py.                          *)
(*                                                                         *)
(* A Python str is a sequence of Unicode code points, so that lower(),     *)
(* strip(), split(), the substring test and the f-strings are computed     *)
(* character by character, for every character a str can hold.  T(<<..>>)  *)
(* writes such a text from its ASCII characters.                           *)
(***************************************************************************)
EXTENDS Integers, Sequences, FiniteSets, TLC

VARIABLES
    name,            \* agent -> its name (Agent.__init__)
    role,            \* agent -> its role
    message_inbox,   \* agent -> the list of messages it received
    knowledge_base,  \* assistant -> its dictionary of canned responses
    graph,           \* the graph held by the KnowledgeGraphAgent
    inflight,        \* the coroutine calls that have started and not yet returned
    last,            \* the most recent call: who, what, with which argument, its result
    sent,            \* the send_message calls made so far, in order
    pc,              \* the position of main() of agent_final.py
    done             \* the results of the operations main() has completed, in order

vars == <<name, role, message_inbox, knowledge_base, graph, inflight, last, sent, pc, done>>

agentState == <<name, role, message_inbox, knowledge_base, graph>>

----------------------------------------------------------------------------
(* Bounds of the model.                                                    *)

MaxSends == 2
MaxPad == 1
MaxTemp == 0

----------------------------------------------------------------------------
(* Text: sequences of code points.                                         *)

IndexIn(c, alphabet) ==
    IF \E i \in 1..Len(alphabet) : alphabet[i] = c
    THEN CHOOSE i \in 1..Len(alphabet) : alphabet[i] = c
    ELSE 0

\* the printable ASCII characters from 32 (space) to 95 (_), in code point order
PrintableLow ==
    <<" ", "!", "\"", "#", "$", "%", "&", "'", "(", ")", "*", "+", ",", "-", ".", "/",
      "0", "1", "2", "3", "4", "5", "6", "7", "8", "9", ":", ";", "<", "=", ">", "?",
      "@", "A", "B", "C", "D", "E", "F", "G", "H", "I", "J", "K", "L", "M", "N", "O",
      "P", "Q", "R", "S", "T", "U", "V", "W", "X", "Y", "Z", "[", "\\", "]", "^", "_">>

\* the printable ASCII characters from 97 (a) to 126 (~), in code point order
PrintableHigh ==
    <<"a", "b", "c", "d", "e", "f", "g", "h", "i", "j", "k", "l", "m", "n", "o",
      "p", "q", "r", "s", "t", "u", "v", "w", "x", "y", "z", "{", "|", "}", "~">>

\* ord(ch), ch a printable ASCII character other than the grave accent (96)
Code(ch) ==
    IF IndexIn(ch, PrintableLow) # 0 THEN 31 + IndexIn(ch, PrintableLow)
    ELSE 96 + IndexIn(ch, PrintableHigh)

\* the text spelled by a tuple of printable ASCII characters
T(chars) == [i \in 1..Len(chars) |-> Code(chars[i])]

\* the concatenation of a list of texts
RECURSIVE Flatten(_)
Flatten(texts) == IF texts = <<>> THEN <<>> ELSE Head(texts) \o Flatten(Tail(texts))

\* the index of the last row of a table sorted on its first column whose first
\* column is at most c, looked for among the rows lo..hi; lo - 1 when there is none
RECURSIVE RowAtOrBelow(_, _, _, _)
RowAtOrBelow(table, c, lo, hi) ==
    IF lo > hi THEN hi
    ELSE LET mid == (lo + hi) \div 2
         IN  IF table[mid][1] <= c
             THEN RowAtOrBelow(table, c, mid + 1, hi)
             ELSE RowAtOrBelow(table, c, lo, mid - 1)

\* c lies in one of the ranges <<first, last>> of a sorted table of ranges
InRanges(c, table) ==
    LET k == RowAtOrBelow(table, c, 1, Len(table))
    IN  k > 0 /\ c <= table[k][2]

----------------------------------------------------------------------------
(* str.lower() and str.strip() of Python 3.11 (Unicode 14).                *)

\* The simple lower-case mapping: a row <<first, last, step, delta>> says that
\* the code points first, first + step, ..., last lower to themselves + delta.
LowerRuns ==
    << <<65, 90, 1, 32>>, <<192, 214, 1, 32>>, <<216, 222, 1, 32>>, <<256, 302, 2, 1>>,
       <<306, 310, 2, 1>>, <<313, 327, 2, 1>>, <<330, 374, 2, 1>>, <<376, 376, 1, -121>>,
       <<377, 381, 2, 1>>, <<385, 385, 1, 210>>, <<386, 388, 2, 1>>, <<390, 390, 1, 206>>,
       <<391, 391, 1, 1>>, <<393, 394, 1, 205>>, <<395, 395, 1, 1>>, <<398, 398, 1, 79>>,
       <<399, 399, 1, 202>>, <<400, 400, 1, 203>>, <<401, 401, 1, 1>>, <<403, 403, 1, 205>>,
       <<404, 404, 1, 207>>, <<406, 406, 1, 211>>, <<407, 407, 1, 209>>, <<408, 408, 1, 1>>,
       <<412, 412, 1, 211>>, <<413, 413, 1, 213>>, <<415, 415, 1, 214>>, <<416, 420, 2, 1>>,
       <<422, 422, 1, 218>>, <<423, 423, 1, 1>>, <<425, 425, 1, 218>>, <<428, 428, 1, 1>>,
       <<430, 430, 1, 218>>, <<431, 431, 1, 1>>, <<433, 434, 1, 217>>, <<435, 437, 2, 1>>,
       <<439, 439, 1, 219>>, <<440, 440, 1, 1>>, <<444, 444, 1, 1>>, <<452, 452, 1, 2>>,
       <<453, 453, 1, 1>>, <<455, 455, 1, 2>>, <<456, 456, 1, 1>>, <<458, 458, 1, 2>>,
       <<459, 475, 2, 1>>, <<478, 494, 2, 1>>, <<497, 497, 1, 2>>, <<498, 500, 2, 1>>,
       <<502, 502, 1, -97>>, <<503, 503, 1, -56>>, <<504, 542, 2, 1>>, <<544, 544, 1, -130>>,
       <<546, 562, 2, 1>>, <<570, 570, 1, 10795>>, <<571, 571, 1, 1>>, <<573, 573, 1, -163>>,
       <<574, 574, 1, 10792>>, <<577, 577, 1, 1>>, <<579, 579, 1, -195>>, <<580, 580, 1, 69>>,
       <<581, 581, 1, 71>>, <<582, 590, 2, 1>>, <<880, 882, 2, 1>>, <<886, 886, 1, 1>>,
       <<895, 895, 1, 116>>, <<902, 902, 1, 38>>, <<904, 906, 1, 37>>, <<908, 908, 1, 64>>,
       <<910, 911, 1, 63>>, <<913, 929, 1, 32>>, <<931, 939, 1, 32>>, <<975, 975, 1, 8>>,
       <<984, 1006, 2, 1>>, <<1012, 1012, 1, -60>>, <<1015, 1015, 1, 1>>, <<1017, 1017, 1, -7>>,
       <<1018, 1018, 1, 1>>, <<1021, 1023, 1, -130>>, <<1024, 1039, 1, 80>>,
       <<1040, 1071, 1, 32>>, <<1120, 1152, 2, 1>>, <<1162, 1214, 2, 1>>, <<1216, 1216, 1, 15>>,
       <<1217, 1229, 2, 1>>, <<1232, 1326, 2, 1>>, <<1329, 1366, 1, 48>>,
       <<4256, 4293, 1, 7264>>, <<4295, 4295, 1, 7264>>, <<4301, 4301, 1, 7264>>,
       <<5024, 5103, 1, 38864>>, <<5104, 5109, 1, 8>>, <<7312, 7354, 1, -3008>>,
       <<7357, 7359, 1, -3008>>, <<7680, 7828, 2, 1>>, <<7838, 7838, 1, -7615>>,
       <<7840, 7934, 2, 1>>, <<7944, 7951, 1, -8>>, <<7960, 7965, 1, -8>>,
       <<7976, 7983, 1, -8>>, <<7992, 7999, 1, -8>>, <<8008, 8013, 1, -8>>,
       <<8025, 8031, 2, -8>>, <<8040, 8047, 1, -8>>, <<8072, 8079, 1, -8>>,
       <<8088, 8095, 1, -8>>, <<8104, 8111, 1, -8>>, <<8120, 8121, 1, -8>>,
       <<8122, 8123, 1, -74>>, <<8124, 8124, 1, -9>>, <<8136, 8139, 1, -86>>,
       <<8140, 8140, 1, -9>>, <<8152, 8153, 1, -8>>, <<8154, 8155, 1, -100>>,
       <<8168, 8169, 1, -8>>, <<8170, 8171, 1, -112>>, <<8172, 8172, 1, -7>>,
       <<8184, 8185, 1, -128>>, <<8186, 8187, 1, -126>>, <<8188, 8188, 1, -9>>,
       <<8486, 8486, 1, -7517>>, <<8490, 8490, 1, -8383>>, <<8491, 8491, 1, -8262>>,
       <<8498, 8498, 1, 28>>, <<8544, 8559, 1, 16>>, <<8579, 8579, 1, 1>>,
       <<9398, 9423, 1, 26>>, <<11264, 11311, 1, 48>>, <<11360, 11360, 1, 1>>,
       <<11362, 11362, 1, -10743>>, <<11363, 11363, 1, -3814>>, <<11364, 11364, 1, -10727>>,
       <<11367, 11371, 2, 1>>, <<11373, 11373, 1, -10780>>, <<11374, 11374, 1, -10749>>,
       <<11375, 11375, 1, -10783>>, <<11376, 11376, 1, -10782>>, <<11378, 11378, 1, 1>>,
       <<11381, 11381, 1, 1>>, <<11390, 11391, 1, -10815>>, <<11392, 11490, 2, 1>>,
       <<11499, 11501, 2, 1>>, <<11506, 11506, 1, 1>>, <<42560, 42604, 2, 1>>,
       <<42624, 42650, 2, 1>>, <<42786, 42798, 2, 1>>, <<42802, 42862, 2, 1>>,
       <<42873, 42875, 2, 1>>, <<42877, 42877, 1, -35332>>, <<42878, 42886, 2, 1>>,
       <<42891, 42891, 1, 1>>, <<42893, 42893, 1, -42280>>, <<42896, 42898, 2, 1>>,
       <<42902, 42920, 2, 1>>, <<42922, 42922, 1, -42308>>, <<42923, 42923, 1, -42319>>,
       <<42924, 42924, 1, -42315>>, <<42925, 42925, 1, -42305>>, <<42926, 42926, 1, -42308>>,
       <<42928, 42928, 1, -42258>>, <<42929, 42929, 1, -42282>>, <<42930, 42930, 1, -42261>>,
       <<42931, 42931, 1, 928>>, <<42932, 42946, 2, 1>>, <<42948, 42948, 1, -48>>,
       <<42949, 42949, 1, -42307>>, <<42950, 42950, 1, -35384>>, <<42951, 42953, 2, 1>>,
       <<42960, 42960, 1, 1>>, <<42966, 42968, 2, 1>>, <<42997, 42997, 1, 1>>,
       <<65313, 65338, 1, 32>>, <<66560, 66599, 1, 40>>, <<66736, 66771, 1, 40>>,
       <<66928, 66938, 1, 39>>, <<66940, 66954, 1, 39>>, <<66956, 66962, 1, 39>>,
       <<66964, 66965, 1, 39>>, <<68736, 68786, 1, 64>>, <<71840, 71871, 1, 32>>,
       <<93760, 93791, 1, 32>>, <<125184, 125217, 1, 34>> >>

\* the code points whose lower-case form is not one code point
\* (U+0130, capital I with dot above: i followed by the combining dot above)
SpecialLower == (304 :> <<105, 775>>)

\* the code points of a run
RunPoints(run) == {run[1] + run[3] * k : k \in 0..((run[2] - run[1]) \div run[3])}

\* the code points the simple lower-case mapping changes
LowerDomain == UNION {RunPoints(LowerRuns[k]) : k \in 1..Len(LowerRuns)}

\* the simple lower-case mapping, as a function on the code points it changes
LowerMap ==
    [c \in LowerDomain |-> c + LowerRuns[RowAtOrBelow(LowerRuns, c, 1, Len(LowerRuns))][4]]

\* str.lower(), one character taken alone: the text it becomes
LowerChar(c) ==
    IF c \in DOMAIN SpecialLower THEN SpecialLower[c]
    ELSE IF c \in LowerDomain THEN <<LowerMap[c]>>
    ELSE <<c>>

\* the ranges of the code points with the Unicode property Cased
Cased ==
    << <<65, 90>>, <<97, 122>>, <<170, 170>>, <<181, 181>>, <<186, 186>>, <<192, 214>>,
       <<216, 246>>, <<248, 442>>, <<444, 447>>, <<452, 659>>, <<661, 696>>, <<704, 705>>,
       <<736, 740>>, <<837, 837>>, <<880, 883>>, <<886, 887>>, <<890, 893>>, <<895, 895>>,
       <<902, 902>>, <<904, 906>>, <<908, 908>>, <<910, 929>>, <<931, 1013>>, <<1015, 1153>>,
       <<1162, 1327>>, <<1329, 1366>>, <<1376, 1416>>, <<4256, 4293>>, <<4295, 4295>>,
       <<4301, 4301>>, <<4304, 4346>>, <<4349, 4351>>, <<5024, 5109>>, <<5112, 5117>>,
       <<7296, 7304>>, <<7312, 7354>>, <<7357, 7359>>, <<7424, 7615>>, <<7680, 7957>>,
       <<7960, 7965>>, <<7968, 8005>>, <<8008, 8013>>, <<8016, 8023>>, <<8025, 8025>>,
       <<8027, 8027>>, <<8029, 8029>>, <<8031, 8061>>, <<8064, 8116>>, <<8118, 8124>>,
       <<8126, 8126>>, <<8130, 8132>>, <<8134, 8140>>, <<8144, 8147>>, <<8150, 8155>>,
       <<8160, 8172>>, <<8178, 8180>>, <<8182, 8188>>, <<8305, 8305>>, <<8319, 8319>>,
       <<8336, 8348>>, <<8450, 8450>>, <<8455, 8455>>, <<8458, 8467>>, <<8469, 8469>>,
       <<8473, 8477>>, <<8484, 8484>>, <<8486, 8486>>, <<8488, 8488>>, <<8490, 8493>>,
       <<8495, 8500>>, <<8505, 8505>>, <<8508, 8511>>, <<8517, 8521>>, <<8526, 8526>>,
       <<8544, 8575>>, <<8579, 8580>>, <<9398, 9449>>, <<11264, 11492>>, <<11499, 11502>>,
       <<11506, 11507>>, <<11520, 11557>>, <<11559, 11559>>, <<11565, 11565>>, <<42560, 42605>>,
       <<42624, 42653>>, <<42786, 42887>>, <<42891, 42894>>, <<42896, 42954>>, <<42960, 42961>>,
       <<42963, 42963>>, <<42965, 42969>>, <<42997, 42998>>, <<43000, 43002>>, <<43824, 43866>>,
       <<43868, 43880>>, <<43888, 43967>>, <<64256, 64262>>, <<64275, 64279>>, <<65313, 65338>>,
       <<65345, 65370>>, <<66560, 66639>>, <<66736, 66771>>, <<66776, 66811>>, <<66928, 66938>>,
       <<66940, 66954>>, <<66956, 66962>>, <<66964, 66965>>, <<66967, 66977>>, <<66979, 66993>>,
       <<66995, 67001>>, <<67003, 67004>>, <<67456, 67456>>, <<67459, 67461>>, <<67463, 67504>>,
       <<67506, 67514>>, <<68736, 68786>>, <<68800, 68850>>, <<71840, 71903>>, <<93760, 93823>>,
       <<119808, 119892>>, <<119894, 119964>>, <<119966, 119967>>, <<119970, 119970>>,
       <<119973, 119974>>, <<119977, 119980>>, <<119982, 119993>>, <<119995, 119995>>,
       <<119997, 120003>>, <<120005, 120069>>, <<120071, 120074>>, <<120077, 120084>>,
       <<120086, 120092>>, <<120094, 120121>>, <<120123, 120126>>, <<120128, 120132>>,
       <<120134, 120134>>, <<120138, 120144>>, <<120146, 120485>>, <<120488, 120512>>,
       <<120514, 120538>>, <<120540, 120570>>, <<120572, 120596>>, <<120598, 120628>>,
       <<120630, 120654>>, <<120656, 120686>>, <<120688, 120712>>, <<120714, 120744>>,
       <<120746, 120770>>, <<120772, 120779>>, <<122624, 122633>>, <<122635, 122654>>,
       <<125184, 125251>>, <<127280, 127305>>, <<127312, 127337>>, <<127344, 127369>> >>

\* the ranges of the code points with the Unicode property Case_Ignorable
CaseIgnorable ==
    << <<39, 39>>, <<46, 46>>, <<58, 58>>, <<94, 94>>, <<96, 96>>, <<168, 168>>, <<173, 173>>,
       <<175, 175>>, <<180, 180>>, <<183, 184>>, <<688, 879>>, <<884, 885>>, <<890, 890>>,
       <<900, 901>>, <<903, 903>>, <<1155, 1161>>, <<1369, 1369>>, <<1375, 1375>>,
       <<1425, 1469>>, <<1471, 1471>>, <<1473, 1474>>, <<1476, 1477>>, <<1479, 1479>>,
       <<1524, 1524>>, <<1536, 1541>>, <<1552, 1562>>, <<1564, 1564>>, <<1600, 1600>>,
       <<1611, 1631>>, <<1648, 1648>>, <<1750, 1757>>, <<1759, 1768>>, <<1770, 1773>>,
       <<1807, 1807>>, <<1809, 1809>>, <<1840, 1866>>, <<1958, 1968>>, <<2027, 2037>>,
       <<2042, 2042>>, <<2045, 2045>>, <<2070, 2093>>, <<2137, 2139>>, <<2184, 2184>>,
       <<2192, 2193>>, <<2200, 2207>>, <<2249, 2306>>, <<2362, 2362>>, <<2364, 2364>>,
       <<2369, 2376>>, <<2381, 2381>>, <<2385, 2391>>, <<2402, 2403>>, <<2417, 2417>>,
       <<2433, 2433>>, <<2492, 2492>>, <<2497, 2500>>, <<2509, 2509>>, <<2530, 2531>>,
       <<2558, 2558>>, <<2561, 2562>>, <<2620, 2620>>, <<2625, 2626>>, <<2631, 2632>>,
       <<2635, 2637>>, <<2641, 2641>>, <<2672, 2673>>, <<2677, 2677>>, <<2689, 2690>>,
       <<2748, 2748>>, <<2753, 2757>>, <<2759, 2760>>, <<2765, 2765>>, <<2786, 2787>>,
       <<2810, 2815>>, <<2817, 2817>>, <<2876, 2876>>, <<2879, 2879>>, <<2881, 2884>>,
       <<2893, 2893>>, <<2901, 2902>>, <<2914, 2915>>, <<2946, 2946>>, <<3008, 3008>>,
       <<3021, 3021>>, <<3072, 3072>>, <<3076, 3076>>, <<3132, 3132>>, <<3134, 3136>>,
       <<3142, 3144>>, <<3146, 3149>>, <<3157, 3158>>, <<3170, 3171>>, <<3201, 3201>>,
       <<3260, 3260>>, <<3263, 3263>>, <<3270, 3270>>, <<3276, 3277>>, <<3298, 3299>>,
       <<3328, 3329>>, <<3387, 3388>>, <<3393, 3396>>, <<3405, 3405>>, <<3426, 3427>>,
       <<3457, 3457>>, <<3530, 3530>>, <<3538, 3540>>, <<3542, 3542>>, <<3633, 3633>>,
       <<3636, 3642>>, <<3654, 3662>>, <<3761, 3761>>, <<3764, 3772>>, <<3782, 3782>>,
       <<3784, 3789>>, <<3864, 3865>>, <<3893, 3893>>, <<3895, 3895>>, <<3897, 3897>>,
       <<3953, 3966>>, <<3968, 3972>>, <<3974, 3975>>, <<3981, 3991>>, <<3993, 4028>>,
       <<4038, 4038>>, <<4141, 4144>>, <<4146, 4151>>, <<4153, 4154>>, <<4157, 4158>>,
       <<4184, 4185>>, <<4190, 4192>>, <<4209, 4212>>, <<4226, 4226>>, <<4229, 4230>>,
       <<4237, 4237>>, <<4253, 4253>>, <<4348, 4348>>, <<4957, 4959>>, <<5906, 5908>>,
       <<5938, 5939>>, <<5970, 5971>>, <<6002, 6003>>, <<6068, 6069>>, <<6071, 6077>>,
       <<6086, 6086>>, <<6089, 6099>>, <<6103, 6103>>, <<6109, 6109>>, <<6155, 6159>>,
       <<6211, 6211>>, <<6277, 6278>>, <<6313, 6313>>, <<6432, 6434>>, <<6439, 6440>>,
       <<6450, 6450>>, <<6457, 6459>>, <<6679, 6680>>, <<6683, 6683>>, <<6742, 6742>>,
       <<6744, 6750>>, <<6752, 6752>>, <<6754, 6754>>, <<6757, 6764>>, <<6771, 6780>>,
       <<6783, 6783>>, <<6823, 6823>>, <<6832, 6862>>, <<6912, 6915>>, <<6964, 6964>>,
       <<6966, 6970>>, <<6972, 6972>>, <<6978, 6978>>, <<7019, 7027>>, <<7040, 7041>>,
       <<7074, 7077>>, <<7080, 7081>>, <<7083, 7085>>, <<7142, 7142>>, <<7144, 7145>>,
       <<7149, 7149>>, <<7151, 7153>>, <<7212, 7219>>, <<7222, 7223>>, <<7288, 7293>>,
       <<7376, 7378>>, <<7380, 7392>>, <<7394, 7400>>, <<7405, 7405>>, <<7412, 7412>>,
       <<7416, 7417>>, <<7468, 7530>>, <<7544, 7544>>, <<7579, 7679>>, <<8125, 8125>>,
       <<8127, 8129>>, <<8141, 8143>>, <<8157, 8159>>, <<8173, 8175>>, <<8189, 8190>>,
       <<8203, 8207>>, <<8216, 8217>>, <<8228, 8228>>, <<8231, 8231>>, <<8234, 8238>>,
       <<8288, 8292>>, <<8294, 8303>>, <<8305, 8305>>, <<8319, 8319>>, <<8336, 8348>>,
       <<8400, 8432>>, <<11388, 11389>>, <<11503, 11505>>, <<11631, 11631>>, <<11647, 11647>>,
       <<11744, 11775>>, <<11823, 11823>>, <<12293, 12293>>, <<12330, 12333>>, <<12337, 12341>>,
       <<12347, 12347>>, <<12441, 12446>>, <<12540, 12542>>, <<40981, 40981>>, <<42232, 42237>>,
       <<42508, 42508>>, <<42607, 42610>>, <<42612, 42621>>, <<42623, 42623>>, <<42652, 42655>>,
       <<42736, 42737>>, <<42752, 42785>>, <<42864, 42864>>, <<42888, 42890>>, <<42994, 42996>>,
       <<43000, 43001>>, <<43010, 43010>>, <<43014, 43014>>, <<43019, 43019>>, <<43045, 43046>>,
       <<43052, 43052>>, <<43204, 43205>>, <<43232, 43249>>, <<43263, 43263>>, <<43302, 43309>>,
       <<43335, 43345>>, <<43392, 43394>>, <<43443, 43443>>, <<43446, 43449>>, <<43452, 43453>>,
       <<43471, 43471>>, <<43493, 43494>>, <<43561, 43566>>, <<43569, 43570>>, <<43573, 43574>>,
       <<43587, 43587>>, <<43596, 43596>>, <<43632, 43632>>, <<43644, 43644>>, <<43696, 43696>>,
       <<43698, 43700>>, <<43703, 43704>>, <<43710, 43711>>, <<43713, 43713>>, <<43741, 43741>>,
       <<43756, 43757>>, <<43763, 43764>>, <<43766, 43766>>, <<43867, 43871>>, <<43881, 43883>>,
       <<44005, 44005>>, <<44008, 44008>>, <<44013, 44013>>, <<64286, 64286>>, <<64434, 64450>>,
       <<65024, 65039>>, <<65043, 65043>>, <<65056, 65071>>, <<65106, 65106>>, <<65109, 65109>>,
       <<65279, 65279>>, <<65287, 65287>>, <<65294, 65294>>, <<65306, 65306>>, <<65342, 65342>>,
       <<65344, 65344>>, <<65392, 65392>>, <<65438, 65439>>, <<65507, 65507>>, <<65529, 65531>>,
       <<66045, 66045>>, <<66272, 66272>>, <<66422, 66426>>, <<67456, 67461>>, <<67463, 67504>>,
       <<67506, 67514>>, <<68097, 68099>>, <<68101, 68102>>, <<68108, 68111>>, <<68152, 68154>>,
       <<68159, 68159>>, <<68325, 68326>>, <<68900, 68903>>, <<69291, 69292>>, <<69446, 69456>>,
       <<69506, 69509>>, <<69633, 69633>>, <<69688, 69702>>, <<69744, 69744>>, <<69747, 69748>>,
       <<69759, 69761>>, <<69811, 69814>>, <<69817, 69818>>, <<69821, 69821>>, <<69826, 69826>>,
       <<69837, 69837>>, <<69888, 69890>>, <<69927, 69931>>, <<69933, 69940>>, <<70003, 70003>>,
       <<70016, 70017>>, <<70070, 70078>>, <<70089, 70092>>, <<70095, 70095>>, <<70191, 70193>>,
       <<70196, 70196>>, <<70198, 70199>>, <<70206, 70206>>, <<70367, 70367>>, <<70371, 70378>>,
       <<70400, 70401>>, <<70459, 70460>>, <<70464, 70464>>, <<70502, 70508>>, <<70512, 70516>>,
       <<70712, 70719>>, <<70722, 70724>>, <<70726, 70726>>, <<70750, 70750>>, <<70835, 70840>>,
       <<70842, 70842>>, <<70847, 70848>>, <<70850, 70851>>, <<71090, 71093>>, <<71100, 71101>>,
       <<71103, 71104>>, <<71132, 71133>>, <<71219, 71226>>, <<71229, 71229>>, <<71231, 71232>>,
       <<71339, 71339>>, <<71341, 71341>>, <<71344, 71349>>, <<71351, 71351>>, <<71453, 71455>>,
       <<71458, 71461>>, <<71463, 71467>>, <<71727, 71735>>, <<71737, 71738>>, <<71995, 71996>>,
       <<71998, 71998>>, <<72003, 72003>>, <<72148, 72151>>, <<72154, 72155>>, <<72160, 72160>>,
       <<72193, 72202>>, <<72243, 72248>>, <<72251, 72254>>, <<72263, 72263>>, <<72273, 72278>>,
       <<72281, 72283>>, <<72330, 72342>>, <<72344, 72345>>, <<72752, 72758>>, <<72760, 72765>>,
       <<72767, 72767>>, <<72850, 72871>>, <<72874, 72880>>, <<72882, 72883>>, <<72885, 72886>>,
       <<73009, 73014>>, <<73018, 73018>>, <<73020, 73021>>, <<73023, 73029>>, <<73031, 73031>>,
       <<73104, 73105>>, <<73109, 73109>>, <<73111, 73111>>, <<73459, 73460>>, <<78896, 78904>>,
       <<92912, 92916>>, <<92976, 92982>>, <<92992, 92995>>, <<94031, 94031>>, <<94095, 94111>>,
       <<94176, 94177>>, <<94179, 94180>>, <<110576, 110579>>, <<110581, 110587>>,
       <<110589, 110590>>, <<113821, 113822>>, <<113824, 113827>>, <<118528, 118573>>,
       <<118576, 118598>>, <<119143, 119145>>, <<119155, 119170>>, <<119173, 119179>>,
       <<119210, 119213>>, <<119362, 119364>>, <<121344, 121398>>, <<121403, 121452>>,
       <<121461, 121461>>, <<121476, 121476>>, <<121499, 121503>>, <<121505, 121519>>,
       <<122880, 122886>>, <<122888, 122904>>, <<122907, 122913>>, <<122915, 122916>>,
       <<122918, 122922>>, <<123184, 123197>>, <<123566, 123566>>, <<123628, 123631>>,
       <<125136, 125142>>, <<125252, 125259>>, <<127995, 127999>>, <<917505, 917505>>,
       <<917536, 917631>>, <<917760, 917999>> >>

\* the position of the nearest character before position i that is not
\* case-ignorable, 0 when there is none
RECURSIVE LastBefore(_, _)
LastBefore(s, i) ==
    IF i <= 1 THEN 0
    ELSE IF InRanges(s[i - 1], CaseIgnorable) THEN LastBefore(s, i - 1)
    ELSE i - 1

\* the position of the nearest character after position i that is not
\* case-ignorable, Len(s) + 1 when there is none
RECURSIVE FirstAfter(_, _)
FirstAfter(s, i) ==
    IF i >= Len(s) THEN Len(s) + 1
    ELSE IF InRanges(s[i + 1], CaseIgnorable) THEN FirstAfter(s, i + 1)
    ELSE i + 1

\* the capital sigma at position i ends a word: a cased letter precedes it and
\* none follows it, case-ignorable characters aside
FinalSigma(s, i) ==
    /\ LastBefore(s, i) > 0
    /\ InRanges(s[LastBefore(s, i)], Cased)
    /\ \/ FirstAfter(s, i) > Len(s)
       \/ ~InRanges(s[FirstAfter(s, i)], Cased)

\* str.lower(): every character lowered, a capital sigma (U+03A3) that ends a
\* word to the final small sigma (U+03C2)
Lower(s) ==
    Flatten([i \in 1..Len(s) |->
                 IF s[i] = 931 /\ FinalSigma(s, i) THEN <<962>> ELSE LowerChar(s[i])])

\* the characters str.strip() removes when called without an argument: the code
\* points for which str.isspace() holds
Whitespace ==
    {9, 10, 11, 12, 13, 28, 29, 30, 31, 32, 133, 160, 5760, 8192, 8193, 8194, 8195, 8196,
     8197, 8198, 8199, 8200, 8201, 8202, 8232, 8233, 8239, 8287, 12288}

RECURSIVE LStrip(_, _)
LStrip(s, chars) ==
    IF s # <<>> /\ Head(s) \in chars THEN LStrip(Tail(s), chars) ELSE s

RECURSIVE RStrip(_, _)
RStrip(s, chars) ==
    IF s # <<>> /\ s[Len(s)] \in chars THEN RStrip(SubSeq(s, 1, Len(s) - 1), chars) ELSE s

\* str.strip(chars): drop the leading and the trailing characters that are in chars
Strip(s, chars) == RStrip(LStrip(s, chars), chars)

\* the first position at which sub occurs in s, 0 when it does not (str.find, 1-based)
Find(s, sub) ==
    LET hits == {i \in 1..(Len(s) - Len(sub) + 1) : SubSeq(s, i, i + Len(sub) - 1) = sub}
    IN  IF hits = {} THEN 0 ELSE CHOOSE i \in hits : \A j \in hits : i <= j

\* sub in s
Contains(s, sub) == Find(s, sub) # 0

\* str.split(sep), sep not empty
RECURSIVE Split(_, _)
Split(s, sep) ==
    LET j == Find(s, sep)
    IN  IF j = 0 THEN <<s>>
        ELSE <<SubSeq(s, 1, j - 1)>> \o Split(SubSeq(s, j + Len(sep), Len(s)), sep)

\* sep.join(items), items a list of texts
RECURSIVE JoinWith(_, _)
JoinWith(sep, items) ==
    IF items = <<>> THEN <<>>
    ELSE IF Len(items) = 1 THEN items[1]
    ELSE items[1] \o sep \o JoinWith(sep, Tail(items))

RECURSIVE NatToStr(_)
NatToStr(n) ==
    IF n < 10 THEN <<Code("0") + n>> ELSE NatToStr(n \div 10) \o <<Code("0") + (n % 10)>>

\* an int formatted by an f-string
IntToStr(n) == IF n < 0 THEN <<Code("-")>> \o NatToStr(-n) ELSE NatToStr(n)

\* dict.get(key, default)
DictGet(d, key, default) == IF key \in DOMAIN d THEN d[key] ELSE default

----------------------------------------------------------------------------
(* class Agent (identical in agent.py and agent_final.py).                 *)

sAgent   == T(<<"A", "g", "e", "n", "t", " ">>)
sOpen    == T(<<" ", "(">>)
sActing  == T(<<")", " ", "i", "s", " ", "a", "c", "t", "i", "n", "g", " ", "o", "n", " ", "p",
                "r", "o", "m", "p", "t", ":", " ", "'">>)
sEndQuote == T(<<"'", ".">>)
sGeneric == T(<<")", " ", "i", "s", " ", "p", "e", "r", "f", "o", "r", "m", "i", "n", "g", " ",
                "a", " ", "g", "e", "n", "e", "r", "i", "c", " ", "a", "c", "t", "i", "o", "n",
                ".">>)

\* Agent.act: the response
Agent_act(n, r, prompt) ==
    IF prompt # <<>>
    THEN sAgent \o n \o sOpen \o r \o sActing \o prompt \o sEndQuote
    ELSE sAgent \o n \o sOpen \o r \o sGeneric

\* Agent.send_message, mutated: recipient.message_inbox.insert(0, message)
send_message_prepend(inbox, recipient, message) ==
    [inbox EXCEPT ![recipient] = <<message>> \o @]

\* Agent.send_message, mutated: one inbox list shared by every agent, as a
\* class attribute or a mutable default argument would be
send_message_shared(inbox, recipient, message) ==
    [a \in DOMAIN inbox |-> Append(inbox[a], message)]

\* Agent.send_message: the inboxes after recipient.message_inbox.append(message)
send_message(inbox, recipient, message) ==
    [inbox EXCEPT ![recipient] = Append(@, message)]

----------------------------------------------------------------------------
(* class AssistantAgent.                                                   *)

kHello   == T(<<"h", "e", "l", "l", "o">>)
kWeather == T(<<"w", "e", "a", "t", "h", "e", "r">>)
kName    == T(<<"n", "a", "m", "e">>)
kTime    == T(<<"t", "i", "m", "e">>)
kHelp    == T(<<"h", "e", "l", "p">>)

rHello   == T(<<"H", "e", "l", "l", "o", "!", " ", "H", "o", "w", " ", "c", "a", "n", " ", "I",
                " ", "h", "e", "l", "p", " ", "y", "o", "u", " ", "t", "o", "d", "a", "y", "?"
                >>)
rWeather ==
    T(<<"I", " ", "c", "a", "n", "'", "t", " ", "c", "h", "e", "c", "k", " ", "t", "h", "e",
        " ", "c", "u", "r", "r", "e", "n", "t", " ", "w", "e", "a", "t", "h", "e", "r", ",",
        " ", "b", "u", "t", " ", "I", " ", "c", "a", "n", " ", "t", "e", "l", "l", " ", "y",
        "o", "u", " ", "i", "t", "'", "s", " ", "a", "l", "w", "a", "y", "s", " ", "s", "u",
        "n", "n", "y", " ", "i", "n", " ", "m", "y", " ", "c", "o", "d", "e", "!">>)
rTime    ==
    T(<<"I", " ", "d", "o", "n", "'", "t", " ", "h", "a", "v", "e", " ", "a", "c", "c", "e",
        "s", "s", " ", "t", "o", " ", "r", "e", "a", "l", "-", "t", "i", "m", "e", " ", "i",
        "n", "f", "o", "r", "m", "a", "t", "i", "o", "n", ",", " ", "b", "u", "t", " ", "i",
        "t", "'", "s", " ", "a", " ", "g", "r", "e", "a", "t", " ", "t", "i", "m", "e", " ",
        "t", "o", " ", "c", "o", "d", "e", "!">>)
rHelp    ==
    T(<<"I", " ", "c", "a", "n", " ", "h", "e", "l", "p", " ", "y", "o", "u", " ", "w", "i",
        "t", "h", " ", "q", "u", "e", "s", "t", "i", "o", "n", "s", " ", "a", "b", "o", "u",
        "t", " ", "m", "y", " ", "n", "a", "m", "e", ",", " ", "t", "h", "e", " ", "w", "e",
        "a", "t", "h", "e", "r", ",", " ", "a", "n", "d", " ", "g", "e", "n", "e", "r", "a",
        "l", " ", "g", "r", "e", "e", "t", "i", "n", "g", "s", ".">>)

sMyNameIs   == T(<<"M", "y", " ", "n", "a", "m", "e", " ", "i", "s", " ">>)
sWhatsYours == T(<<".", " ", "W", "h", "a", "t", "'", "s", " ", "y", "o", "u", "r", "s", "?">>)

\* f"My name is {self.name}. What's yours?"
NameResponse(n) == sMyNameIs \o n \o sWhatsYours

\* AssistantAgent.__init__ of agent.py, mutated: the f prefix of the "name" entry
\* forgotten, so the braces are not substituted
KnowledgeBase_nofstring(n) ==
    (kHello :> rHello) @@ (kWeather :> rWeather)
    @@ (kName :> T(<<"M", "y", " ", "n", "a", "m", "e", " ", "i", "s", " ", "{", "s", "e", "l",
                     "f", ".", "n", "a", "m", "e", "}", ".", " ", "W", "h", "a", "t", "'", "s",
                     " ", "y", "o", "u", "r", "s", "?">>))
    @@ (kTime :> rTime) @@ (kHelp :> rHelp)

\* AssistantAgent.__init__ of agent.py: self.knowledge_base
KnowledgeBase(n) ==
    (kHello :> rHello) @@ (kWeather :> rWeather) @@ (kName :> NameResponse(n))
    @@ (kTime :> rTime) @@ (kHelp :> rHelp)

\* AssistantAgent.__init__ of agent_final.py, mutated: the "help" entry left out
KnowledgeBaseFinal_nohelp(n) ==
    (kHello :> rHello) @@ (kName :> NameResponse(n)) @@ (kTime :> rTime)

\* AssistantAgent.__init__ of agent_final.py: self.knowledge_base (no "weather" entry)
KnowledgeBaseFinal(n) ==
    (kHello :> rHello) @@ (kName :> NameResponse(n)) @@ (kTime :> rTime) @@ (kHelp :> rHelp)

Fallback == T(<<"I", "'", "m", " ", "s", "o", "r", "r", "y", ",", " ", "I", " ", "d", "o", "n",
                "'", "t", " ", "u", "n", "d", "e", "r", "s", "t", "a", "n", "d", " ", "t", "h",
                "a", "t", " ", "r", "e", "q", "u", "e", "s", "t", ".", " ", "T", "r", "y", " ",
                "a", "s", "k", "i", "n", "g", " ", "f", "o", "r", " ", "'", "h", "e", "l", "p",
                "'", ".">>)

\* clean_prompt, mutated: prompt.lower() without the strip()
clean_prompt_nostrip(prompt) == Lower(prompt)

\* clean_prompt = prompt.lower().strip()
clean_prompt(prompt) == Strip(Lower(prompt), Whitespace)

\* the lookup, mutated: knowledge_base.get(clean_prompt) with the default left out
lookup_nodefault(kb, prompt) == DictGet(kb, clean_prompt(prompt), T(<<"N", "o", "n", "e">>))

\* self.knowledge_base.get(clean_prompt, "I'm sorry, ...")
lookup(kb, prompt) == DictGet(kb, clean_prompt(prompt), Fallback)

\* AssistantAgent.act of agent.py: the response
AssistantAgent_act(kb, prompt) == lookup(kb, prompt)

\* agent_final.py: "weather" in clean_prompt
is_weather_request(prompt) == Contains(clean_prompt(prompt), kWeather)

City == T(<<"B", "a", "n", "g", "a", "l", "o", "r", "e">>)

\* the except clause, mutated: except aiohttp.ClientConnectorError as e
catches_connector_only(exc) == IndexIn("ClientConnectorError", exc) # 0

\* except Exception as e: the clause catches the exception when it is an instance
\* of Exception, that is when Exception is among the classes of type(e).__mro__;
\* exc is that tuple of class names
catches(exc) == IndexIn("Exception", exc) # 0

sTemperatureIn == T(<<"T", "h", "e", " ", "c", "u", "r", "r", "e", "n", "t", " ", "t", "e", "m",
                      "p", "e", "r", "a", "t", "u", "r", "e", " ", "i", "n", " ">>)
sIs            == T(<<" ", "i", "s", " ">>)
sDegreesWith   == (<<176>> \o T(<<"C", " ", "w", "i", "t", "h", " ">>))
sDot           == T(<<".">>)
sSorry         == T(<<"S", "o", "r", "r", "y", ",", " ", "I", " ", "c", "o", "u", "l", "d", "n",
                      "'", "t", " ", "g", "e", "t", " ", "t", "h", "e", " ", "w", "e", "a", "t",
                      "h", "e", "r", " ", "f", "o", "r", " ">>)
sError         == T(<<".", " ", "E", "r", "r", "o", "r", ":", " ">>)

\* get_weather_info, the success branch
weather_report(city, temperature, description) ==
    sTemperatureIn \o city \o sIs \o IntToStr(temperature) \o sDegreesWith
        \o description \o sDot

\* get_weather_info, the except branch; e is str(e)
weather_apology(city, e) == sSorry \o city \o sError \o e

----------------------------------------------------------------------------
(* networkx.Graph as the scripts use it: nodes and neighbours are kept in  *)
(* insertion order.                                                        *)

EmptyGraph == [nodes |-> <<>>, adj |-> <<>>]

InSeq(x, s) == \E i \in 1..Len(s) : s[i] = x

AppendNew(s, x) == IF InSeq(x, s) THEN s ELSE Append(s, x)

\* index of node n in G.nodes, 0 when absent
NodeIndex(G, n) == IndexIn(n, G.nodes)

\* n in G
HasNode(G, n) == NodeIndex(G, n) # 0

\* G.add_node(n)
AddNode(G, n) ==
    IF HasNode(G, n) THEN G
    ELSE [nodes |-> Append(G.nodes, n), adj |-> Append(G.adj, <<>>)]

\* G.add_edge(u, v)
AddEdge(G, u, v) ==
    LET H  == AddNode(AddNode(G, u), v)
        iu == NodeIndex(H, u)
        H1 == [H EXCEPT !.adj[iu] = AppendNew(@, v)]
        iv == NodeIndex(H1, v)
    IN  [H1 EXCEPT !.adj[iv] = AppendNew(@, u)]

\* list(G.neighbors(n)), n a node of G
Neighbors(G, n) == G.adj[NodeIndex(G, n)]

----------------------------------------------------------------------------
(* class KnowledgeGraphAgent.                                              *)

sepTo == T(<<"t", "o", " ">>)

\* the characters of strip("? ")
QuestionOrSpace == {Code("?"), Code(" ")}

\* parts = query.lower().split("to ")
query_parts(query) == Split(Lower(query), sepTo)

\* target_node = parts[1].strip("? ")     (Python indexes from 0)
target_node(query) == Strip(query_parts(query)[2], QuestionOrSpace)

FormatError ==
    T(<<"Q", "u", "e", "r", "y", " ", "f", "o", "r", "m", "a", "t", " ", "n", "o", "t", " ",
        "u", "n", "d", "e", "r", "s", "t", "o", "o", "d", ".", " ", "P", "l", "e", "a", "s",
        "e", " ", "u", "s", "e", " ", "'", "W", "h", "o", " ", "i", "s", " ", "c", "o", "n",
        "n", "e", "c", "t", "e", "d", " ", "t", "o", " ", "[", "N", "o", "d", "e", " ", "N",
        "a", "m", "e", "]", "?", "'", "'">>)

sTheNode     == T(<<"T", "h", "e", " ", "n", "o", "d", "e", " ", "'">>)
sNotExist    == T(<<"'", " ", "d", "o", "e", "s", " ", "n", "o", "t", " ", "e", "x", "i", "s",
                    "t", " ", "i", "n", " ", "t", "h", "e", " ", "g", "r", "a", "p", "h", ".">>)
sQuote       == T(<<"'">>)
sNoConnect   == T(<<"'", " ", "h", "a", "s", " ", "n", "o", " ", "c", "o", "n", "n", "e", "c",
                    "t", "i", "o", "n", "s", " ", "i", "n", " ", "t", "h", "e", " ", "g", "r",
                    "a", "p", "h", ".">>)
sConnectedTo == T(<<"T", "h", "e", " ", "f", "o", "l", "l", "o", "w", "i", "n", "g", " ", "a",
                    "r", "e", " ", "c", "o", "n", "n", "e", "c", "t", "e", "d", " ", "t", "o",
                    " ", "'">>)
sQuoteColon  == T(<<"'", ":", " ">>)
sCommaSpace  == T(<<",", " ">>)

NotExistMessage(t) == sTheNode \o t \o sNotExist

NoConnectionsMessage(t) == sQuote \o t \o sNoConnect

ConnectionsMessage(t, neighbors) ==
    sConnectedTo \o t \o sQuoteColon \o JoinWith(sCommaSpace, neighbors) \o sDot

\* KnowledgeGraphAgent.act: the response
KnowledgeGraphAgent_act(G, query) ==
    IF Len(query_parts(query)) < 2 THEN FormatError
    ELSE LET t == target_node(query)
         IN  IF ~HasNode(G, t) THEN NotExistMessage(t)
             ELSE IF Neighbors(G, t) = <<>> THEN NoConnectionsMessage(t)
             ELSE ConnectionsMessage(t, Neighbors(G, t))

----------------------------------------------------------------------------
(* The values the scripts' main routines use.                              *)

pHello    == T(<<"H", "e", "l", "l", "o">>)
pWeather  == T(<<"W", "h", "a", "t", "'", "s", " ", "t", "h", "e", " ", "w", "e", "a", "t", "h",
                 "e", "r", " ", "l", "i", "k", "e", "?">>)
pWho      == T(<<"w", "h", "o", " ", "a", "r", "e", " ", "y", "o", "u", "?">>)
pCapital  == T(<<"w", "h", "a", "t", "'", "s", " ", "t", "h", "e", " ", "c", "a", "p", "i", "t",
                 "a", "l", " ", "o", "f", " ", "F", "r", "a", "n", "c", "e", "?">>)
pBegin    == T(<<"B", "e", "g", "i", "n", " ", "r", "e", "p", "o", "r", "t", " ", "p", "r", "e",
                 "p", "a", "r", "a", "t", "i", "o", "n", ".">>)

WeeklyReport == T(<<"P", "l", "e", "a", "s", "e", " ", "p", "r", "e", "p", "a", "r", "e", " ",
                    "t", "h", "e", " ", "w", "e", "e", "k", "l", "y", " ", "r", "e", "p", "o",
                    "r", "t", ".">>)

\* the names the main routines give their agents
MainNames ==
    [agent_a |-> T(<<"A", "l", "i", "c", "e">>),
     agent_b |-> T(<<"B", "o", "b">>),
     assistant |-> T(<<"C", "o", "d", "y">>),
     assistant_final |-> T(<<"C", "o", "d", "y">>),
     graph_agent |-> T(<<"G", "r", "a", "p", "h", "B", "o", "t">>)]

\* their roles: given by main, or the default of the subclass
MainRoles ==
    [agent_a |-> T(<<"c", "o", "o", "r", "d", "i", "n", "a", "t", "o", "r">>),
     agent_b |-> T(<<"a", "n", "a", "l", "y", "s", "t">>),
     assistant |-> T(<<"a", "s", "s", "i", "s", "t", "a", "n", "t">>),
     assistant_final |-> T(<<"a", "s", "s", "i", "s", "t", "a", "n", "t">>),
     graph_agent |-> T(<<"g", "r", "a", "p", "h", "_", "q", "u", "e", "r", "y", "_", "a", "g",
                         "e", "n", "t">>)]

nDoctor   == T(<<"D", "o", "c", "t", "o", "r">>)
nHospital == T(<<"H", "o", "s", "p", "i", "t", "a", "l">>)
nPatientA == T(<<"P", "a", "t", "i", "e", "n", "t", " ", "A">>)
nPatientB == T(<<"P", "a", "t", "i", "e", "n", "t", " ", "B">>)
nNurse    == T(<<"N", "u", "r", "s", "e">>)
nClinic   == T(<<"C", "l", "i", "n", "i", "c">>)
nJanitor  == T(<<"J", "a", "n", "i", "t", "o", "r">>)

\* main: the five add_edge calls on G = nx.Graph()
MainEdges ==
    << <<nHospital, nDoctor>>, <<nDoctor, nPatientA>>, <<nDoctor, nPatientB>>,
       <<nDoctor, nNurse>>, <<nHospital, nClinic>> >>

RECURSIVE AddEdges(_, _)
AddEdges(G, edges) ==
    IF edges = <<>> THEN G
    ELSE AddEdges(AddEdge(G, Head(edges)[1], Head(edges)[2]), Tail(edges))

\* the graph main hands to the KnowledgeGraphAgent
HospitalGraph == AddEdges(EmptyGraph, MainEdges)

whoIsConnectedTo == T(<<"W", "h", "o", " ", "i", "s", " ", "c", "o", "n", "n", "e", "c", "t",
                        "e", "d", " ", "t", "o", " ">>)

\* the query "Who is connected to X?"
QueryFor(X) == whoIsConnectedTo \o X \o <<Code("?")>>

----------------------------------------------------------------------------
(* Inputs of the bounded exploration.                                      *)

\* a text with its ASCII small letters made capital: a way to write a prompt
UpperAsciiChar(c) == IF c >= Code("a") /\ c <= Code("z") THEN c - 32 ELSE c
UpperAscii(s) == [i \in 1..Len(s) |-> UpperAsciiChar(s[i])]
CapitalizeAscii(s) == [i \in 1..Len(s) |-> IF i = 1 THEN UpperAsciiChar(s[i]) ELSE s[i]]

\* leading or trailing padding: up to MaxPad spaces
Pads == {[i \in 1..n |-> Code(" ")] : n \in 0..MaxPad}

\* paddings of other whitespace: tab and vertical tab before, no-break space
\* (U+00A0), carriage return and line feed after; ideographic space (U+3000)
\* before, file separator (U+001C) and next line (U+0085) after
OtherPaddings ==
    {<< <<9, 11>>, <<160, 13, 10>> >>, << <<12288>>, <<28, 133>> >>}

\* one-sided and symmetric paddings of spaces, and the paddings of other whitespace
Paddings ==
    {lr \in Pads \X Pads : lr[1] = <<>> \/ lr[2] = <<>> \/ lr[1] = lr[2]}
    \cup OtherPaddings

bWeatherLike == Lower(pWeather)

\* the prompts before their letter case is varied and they are padded: the keys,
\* texts that are no key ("hel lo", "help me"), "tİme" with the capital I with dot
\* above (U+0130), "namÉ" with the capital E with acute (U+00C9), the empty prompt
Bases ==
    {kHello, kWeather, kName, kTime, kHelp, bWeatherLike, pWho, <<>>,
     T(<<"h", "e", "l", " ", "l", "o">>),
     T(<<"h", "e", "l", "p", " ", "m", "e">>),
     (T(<<"t">>) \o <<304>> \o T(<<"m", "e">>)),
     (T(<<"n", "a", "m">>) \o <<201>>)}

CaseVariants(b) == {b, UpperAscii(b), CapitalizeAscii(b)}

MainPrompts == {pHello, pWeather, pWho, pCapital}

\* the prompts given to the assistants
Prompts ==
    MainPrompts \cup
    UNION {{lr[1] \o v \o lr[2] : v \in CaseVariants(b)} : b \in Bases, lr \in Paddings}

AgentPrompts == {<<>>, pBegin}

Messages ==
    {WeeklyReport,
     T(<<"R", "e", "p", "o", "r", "t", " ", "a", "t", "t", "a", "c", "h", "e", "d", ".">>)}

nAda     == T(<<"A", "d", "a">>)

nLDoctor == Lower(nDoctor)
nLNurse  == Lower(nNurse)
nLClinic == Lower(nClinic)
nLab     == T(<<"p", "h", "o", "t", "o", " ", "l", "a", "b">>)
\* "café", and the Greek "οδος" written with a final sigma
nCafe    == (T(<<"c", "a", "f">>) \o <<233>>)
nOdos    == <<959, 948, 959, 962>>

\* a graph whose node names are lower-case, with an isolated node
LowerGraph ==
    AddNode(AddEdge(AddEdge(AddEdge(EmptyGraph, nLDoctor, nLNurse), nLDoctor, nLab),
                    nCafe, nOdos),
            nLClinic)

MainQueries == {QueryFor(nDoctor), QueryFor(nHospital), QueryFor(nJanitor)}

\* the X of the queries "Who is connected to X?"; the last three are "CAFÉ",
\* "ΟΔΟΣ" and "İ"
QueryNodes ==
    {nDoctor, nHospital, nPatientA, nClinic, nJanitor,
     nLDoctor, nLNurse, nLClinic, nLab, nCafe, UpperAscii(nLDoctor), CapitalizeAscii(nLab),
     nLDoctor \o <<Code("?")>>, <<Code(" ")>> \o nLClinic,
     nLDoctor \o <<Code(" ")>> \o sepTo \o nLNurse,
     (T(<<"C", "A", "F">>) \o <<201>>),
     <<927, 916, 927, 931>>,
     <<304>>}

Queries ==
    {QueryFor(X) : X \in QueryNodes}
    \cup {pHello, <<>>, whoIsConnectedTo, Lower(QueryFor(nLDoctor))}

Temperatures == -1..MaxTemp

Descriptions ==
    {T(<<"S", "u", "n", "n", "y">>),
     T(<<"P", "a", "r", "t", "l", "y", " ", "c", "l", "o", "u", "d", "y">>)}

\* the exceptions the awaited weather call ends with that are instances of
\* Exception: type(e).__mro__ and str(e)
Failures ==
    {[exc |-> <<"ClientConnectorError", "ClientOSError", "ClientConnectionError",
                "ClientError", "OSError", "Exception", "BaseException", "object">>,
      e |-> T(<<"C", "a", "n", "n", "o", "t", " ", "c", "o", "n", "n", "e", "c", "t", " ", "t",
                "o", " ", "h", "o", "s", "t", " ", "w", "t", "t", "r", ".", "i", "n", ":", "4",
                "4", "3", " ", "s", "s", "l", ":", "d", "e", "f", "a", "u", "l", "t", " ", "[",
                "C", "o", "n", "n", "e", "c", "t", " ", "c", "a", "l", "l", " ", "f", "a", "i",
                "l", "e", "d", "]">>)],
     [exc |-> <<"RequestError", "Error", "Exception", "BaseException", "object">>,
      e |-> <<>>],
     [exc |-> <<"AttributeError", "Exception", "BaseException", "object">>,
      e |-> T(<<"'", "N", "o", "n", "e", "T", "y", "p", "e", "'", " ", "o", "b", "j", "e", "c",
                "t", " ", "h", "a", "s", " ", "n", "o", " ", "a", "t", "t", "r", "i", "b", "u",
                "t", "e", " ", "'", "t", "e", "m", "p", "e", "r", "a", "t", "u", "r", "e", "'"
                >>)],
     [exc |-> <<"ValueError", "Exception", "BaseException", "object">>,
      e |-> T(<<"i", "n", "v", "a", "l", "i", "d", " ", "l", "i", "t", "e", "r", "a", "l", " ",
                "f", "o", "r", " ", "i", "n", "t", "(", ")", " ", "w", "i", "t", "h", " ", "b",
                "a", "s", "e", " ", "1", "0", ":", " ", "'", "N", "/", "A", "'">>)],
     [exc |-> <<"KeyError", "LookupError", "Exception", "BaseException", "object">>,
      e |-> T(<<"'", "c", "u", "r", "r", "e", "n", "t", "_", "c", "o", "n", "d", "i", "t", "i",
                "o", "n", "'">>)],
     [exc |-> <<"TimeoutError", "OSError", "Exception", "BaseException", "object">>,
      e |-> <<>>]}

\* the exceptions the awaited weather call ends with that derive from
\* BaseException only: Ctrl-C, the cancellation of the task, sys.exit
Interrupts ==
    {[exc |-> <<"KeyboardInterrupt", "BaseException", "object">>, e |-> <<>>],
     [exc |-> <<"CancelledError", "BaseException", "object">>, e |-> <<>>],
     [exc |-> <<"SystemExit", "BaseException", "object">>,
      e |-> T(<<"1">>)]}

\* the agents that exchange messages in the messaging exploration
Correspondents == {"agent_a", "agent_b", "assistant_final"}

----------------------------------------------------------------------------
(* State.                                                                  *)

Class ==
    [agent_a |-> "Agent", agent_b |-> "Agent", assistant |-> "agent.AssistantAgent",
     assistant_final |-> "agent_final.AssistantAgent", graph_agent |-> "KnowledgeGraphAgent"]

AgentIds == DOMAIN Class

Agents == DOMAIN name

\* no exception
NoFailure == [exc |-> <<>>, e |-> <<>>]

\* a call, its status (none, suspended, returned, raised), the response it
\* returned, and the exception its weather client call ended with
Call(a, op, prompt, status, response) ==
    [agent |-> a, op |-> op, prompt |-> prompt, status |-> status,
     response |-> response, failure |-> NoFailure]

\* the call whose weather client call ended with the exception of classes exc
\* and text e
Failed(call, exc, e) == [call EXCEPT !.failure = [exc |-> exc, e |-> e]]

NoCall == Call("", "", <<>>, "none", <<>>)

Nothing == [a \in {} |-> <<>>]

\* Agent.__init__, and the subclasses' __init__ on top of it
NewAgent(f, a, v) == (a :> v) @@ f

\* every agent constructed, as the scripts construct them: the assistant of
\* agent.py and the assistant of agent_final.py side by side
InitAgents(n1, n2, G) ==
    /\ name = [MainNames EXCEPT !.assistant = n1, !.assistant_final = n2]
    /\ role = MainRoles
    /\ message_inbox = [a \in AgentIds |-> <<>>]
    /\ knowledge_base = [assistant |-> KnowledgeBase(n1),
                         assistant_final |-> KnowledgeBaseFinal(n2)]
    /\ graph = G
    /\ inflight = {}
    /\ last = NoCall
    /\ sent = <<>>
    /\ pc = 0
    /\ done = <<>>

\* the state of the messaging exploration: the agents of the main routines
Init == InitAgents(MainNames.assistant, MainNames.assistant_final, HospitalGraph)

\* the constructions of the act exploration: the assistants' names and the graph
Constructions ==
    {<<MainNames.assistant, MainNames.assistant_final, HospitalGraph>>,
     <<nAda, nAda, LowerGraph>>,
     <<MainNames.assistant, nAda, EmptyGraph>>}

\* the state of the act exploration
InitAct == \E c \in Constructions : InitAgents(c[1], c[2], c[3])

----------------------------------------------------------------------------
(* The operations.  Each leaves main's pc and done to its caller.          *)

\* the caller, mutated: the coroutine is scheduled (asyncio.create_task) and
\* the caller goes on without awaiting it
awaited_not == TRUE

\* "await x.act(...)": the caller is resumed only when the call has returned,
\* so a call starts only when no earlier call is pending
awaited == inflight = {}

\* sender.send_message(recipient, message)
Do_send_message(sender, recipient, message) ==
    /\ awaited
    /\ message_inbox' = send_message(message_inbox, recipient, message)
    /\ sent' = Append(sent, [recipient |-> recipient, message |-> message])
    /\ last' = Call(sender, "send_message", <<>>, "returned", <<>>)
    /\ UNCHANGED <<name, role, knowledge_base, graph, inflight>>

\* a.act(prompt), a an Agent
Do_Agent_act(a, prompt) ==
    /\ awaited
    /\ last' = Call(a, "act", prompt, "returned", Agent_act(name[a], role[a], prompt))
    /\ UNCHANGED <<agentState, inflight, sent>>

\* a.act(prompt), a the AssistantAgent of agent.py
Do_AssistantAgent_act(a, prompt) ==
    /\ awaited
    /\ last' = Call(a, "act", prompt, "returned",
                    AssistantAgent_act(knowledge_base[a], prompt))
    /\ UNCHANGED <<agentState, inflight, sent>>

\* a.act(prompt), a the AssistantAgent of agent_final.py: up to its return, or up
\* to the await of the weather client inside get_weather_info("Bangalore")
Do_AssistantAgent_act_final(a, prompt) ==
    /\ awaited
    /\ IF is_weather_request(prompt)
       THEN /\ inflight' = inflight \cup {[agent |-> a, op |-> "act", prompt |-> prompt]}
            /\ last' = Call(a, "act", prompt, "suspended", <<>>)
       ELSE /\ inflight' = inflight
            /\ last' = Call(a, "act", prompt, "returned", lookup(knowledge_base[a], prompt))
    /\ UNCHANGED <<agentState, sent>>

\* the weather client returns a forecast: get_weather_info formats it and act
\* returns it
Do_weather_returns(c, temperature, description) ==
    /\ c \in inflight
    /\ inflight' = inflight \ {c}
    /\ last' = Call(c.agent, "act", c.prompt, "returned",
                    weather_report(City, temperature, description))
    /\ UNCHANGED <<agentState, sent>>

\* the await raises an exception of classes exc (its __mro__) with text e:
\* caught by "except Exception" it becomes the response; otherwise it propagates
\* out of get_weather_info and of act
Do_weather_raises(c, exc, e) ==
    /\ c \in inflight
    /\ inflight' = inflight \ {c}
    /\ last' = IF catches(exc)
               THEN Failed(Call(c.agent, "act", c.prompt, "returned",
                                weather_apology(City, e)), exc, e)
               ELSE Failed(Call(c.agent, "act", c.prompt, "raised", <<>>), exc, e)
    /\ UNCHANGED <<agentState, sent>>

\* a.act(query), a the KnowledgeGraphAgent
Do_KnowledgeGraphAgent_act(a, query) ==
    /\ awaited
    /\ last' = Call(a, "act", query, "returned", KnowledgeGraphAgent_act(graph, query))
    /\ UNCHANGED <<agentState, inflight, sent>>

----------------------------------------------------------------------------
(* The library driven by any caller that awaits each call: the messaging   *)
(* exploration (Spec) and the act exploration (ActSpec).                   *)

Send ==
    \E s \in Correspondents, r \in Correspondents, m \in Messages :
        /\ Len(sent) < MaxSends
        /\ Do_send_message(s, r, m)
        /\ UNCHANGED <<pc, done>>

AgentAct(prompts) ==
    \E a \in {x \in Agents : Class[x] = "Agent"}, p \in prompts :
        Do_Agent_act(a, p) /\ UNCHANGED <<pc, done>>

AssistantAct(prompts) ==
    \E p \in prompts : Do_AssistantAgent_act("assistant", p) /\ UNCHANGED <<pc, done>>

AssistantActFinal(prompts) ==
    \E p \in prompts : Do_AssistantAgent_act_final("assistant_final", p) /\ UNCHANGED <<pc, done>>

WeatherReturns ==
    \E c \in inflight, t \in Temperatures, d \in Descriptions :
        Do_weather_returns(c, t, d) /\ UNCHANGED <<pc, done>>

WeatherRaises ==
    \E c \in inflight, f \in Failures :
        Do_weather_raises(c, f.exc, f.e) /\ UNCHANGED <<pc, done>>

WeatherInterrupted ==
    \E c \in inflight, f \in Interrupts :
        Do_weather_raises(c, f.exc, f.e) /\ UNCHANGED <<pc, done>>

GraphAct(queries) ==
    \E q \in queries : Do_KnowledgeGraphAgent_act("graph_agent", q) /\ UNCHANGED <<pc, done>>

Next ==
    \/ Send
    \/ AgentAct(AgentPrompts)
    \/ AssistantAct(MainPrompts)
    \/ AssistantActFinal(MainPrompts)
    \/ WeatherReturns
    \/ WeatherRaises
    \/ WeatherInterrupted
    \/ GraphAct(MainQueries)

Spec == Init /\ [][Next]_vars

NextAct ==
    \/ AgentAct(AgentPrompts)
    \/ AssistantAct(Prompts)
    \/ AssistantActFinal(Prompts)
    \/ WeatherReturns
    \/ WeatherRaises
    \/ WeatherInterrupted
    \/ GraphAct(Queries)

ActSpec == InitAct /\ [][NextAct]_vars

----------------------------------------------------------------------------
(* main() of agent_final.py, statement by statement.  pc is the index of   *)
(* the next statement; a statement runs only when the call before it has   *)
(* returned; an exception that leaves act ends main.                       *)

New(a)       == [k |-> "new", a |-> a, n |-> MainNames[a], r |-> MainRoles[a]]
Act(a, p)    == [k |-> "act", a |-> a, p |-> p]
Edge(i)      == [k |-> "edge", u |-> MainEdges[i][1], v |-> MainEdges[i][2]]

MainProgram ==
    << New("agent_a"),
       New("agent_b"),
       [k |-> "send", a |-> "agent_a", to |-> "agent_b", m |-> WeeklyReport],
       Act("agent_b", pBegin),
       New("assistant_final"),
       Act("assistant_final", pHello),
       Act("assistant_final", pWeather),
       Act("assistant_final", pWho),
       Act("assistant_final", pCapital),
       [k |-> "graph"],
       Edge(1), Edge(2), Edge(3), Edge(4), Edge(5),
       New("graph_agent"),
       Act("graph_agent", QueryFor(nDoctor)),
       Act("graph_agent", QueryFor(nHospital)),
       Act("graph_agent", QueryFor(nJanitor)),
       [k |-> "plot"] >>

MainEnd == Len(MainProgram) + 1

\* an exception propagated out of an awaited call: main, and the script, end
MainAborted == last.status = "raised"

MainAt(kind) ==
    /\ pc \in 1..Len(MainProgram)
    /\ ~MainAborted
    /\ MainProgram[pc].k = kind

stmt == MainProgram[pc]

InitMain ==
    /\ name = Nothing
    /\ role = Nothing
    /\ message_inbox = [a \in {} |-> <<>>]
    /\ knowledge_base = [a \in {} |-> Nothing]
    /\ graph = EmptyGraph
    /\ inflight = {}
    /\ last = NoCall
    /\ sent = <<>>
    /\ pc = 1
    /\ done = <<>>

\* Agent(...), AssistantAgent(...), KnowledgeGraphAgent(..., graph=G)
MainNew ==
    /\ MainAt("new")
    /\ awaited
    /\ name' = NewAgent(name, stmt.a, stmt.n)
    /\ role' = NewAgent(role, stmt.a, stmt.r)
    /\ message_inbox' = NewAgent(message_inbox, stmt.a, <<>>)
    /\ knowledge_base' =
           IF Class[stmt.a] = "agent_final.AssistantAgent"
           THEN NewAgent(knowledge_base, stmt.a, KnowledgeBaseFinal(stmt.n))
           ELSE knowledge_base
    /\ pc' = pc + 1
    /\ UNCHANGED <<graph, inflight, last, sent, done>>

MainSend ==
    /\ MainAt("send")
    /\ Do_send_message(stmt.a, stmt.to, stmt.m)
    /\ pc' = pc + 1
    /\ done' = Append(done, last')

\* await x.act(...): the call runs to its return or to its suspension
MainAct ==
    /\ MainAt("act")
    /\ CASE Class[stmt.a] = "Agent" -> Do_Agent_act(stmt.a, stmt.p)
         [] Class[stmt.a] = "agent_final.AssistantAgent" ->
                Do_AssistantAgent_act_final(stmt.a, stmt.p)
         [] Class[stmt.a] = "KnowledgeGraphAgent" ->
                Do_KnowledgeGraphAgent_act(stmt.a, stmt.p)
    /\ pc' = pc + 1
    /\ done' = IF last'.status = "returned" THEN Append(done, last') ELSE done

MainWeatherReturns ==
    \E c \in inflight, t \in Temperatures, d \in Descriptions :
        /\ Do_weather_returns(c, t, d)
        /\ done' = Append(done, last')
        /\ pc' = pc

MainWeatherRaises ==
    \E c \in inflight, f \in Failures :
        /\ Do_weather_raises(c, f.exc, f.e)
        /\ done' = IF last'.status = "returned" THEN Append(done, last') ELSE done
        /\ pc' = pc

MainWeatherInterrupted ==
    \E c \in inflight, f \in Interrupts :
        /\ Do_weather_raises(c, f.exc, f.e)
        /\ done' = IF last'.status = "returned" THEN Append(done, last') ELSE done
        /\ pc' = pc

\* G = nx.Graph()
MainGraph ==
    /\ MainAt("graph")
    /\ awaited
    /\ graph' = EmptyGraph
    /\ pc' = pc + 1
    /\ UNCHANGED <<name, role, message_inbox, knowledge_base, inflight, last, sent, done>>

\* G.add_edge(u, v)
MainAddEdge ==
    /\ MainAt("edge")
    /\ awaited
    /\ graph' = AddEdge(graph, stmt.u, stmt.v)
    /\ pc' = pc + 1
    /\ UNCHANGED <<name, role, message_inbox, knowledge_base, inflight, last, sent, done>>

\* the plotting calls: they read G and change nothing of the agents
MainPlot ==
    /\ MainAt("plot")
    /\ awaited
    /\ pc' = pc + 1
    /\ UNCHANGED <<agentState, inflight, last, sent, done>>

NextMain ==
    \/ MainNew
    \/ MainSend
    \/ MainAct
    \/ MainWeatherReturns
    \/ MainWeatherRaises
    \/ MainWeatherInterrupted
    \/ MainGraph
    \/ MainAddEdge
    \/ MainPlot

MainSpec == InitMain /\ [][NextMain]_vars

----------------------------------------------------------------------------
(* The claims.                                                             *)

Assistants == {"assistant", "assistant_final"}

\* the most recent call is a.act(...) and it has returned a response
Returned(a) == last.agent = a /\ last.op = "act" /\ last.status = "returned"

\* the prompt, lower-cased, contains "weather"
MentionsWeather(prompt) == Contains(Lower(prompt), kWeather)

\* the prompt lower-cased and trimmed, as the claims state it
Normalized(prompt) == Strip(Lower(prompt), Whitespace)

\* C1 as stated: whenever an assistant of either script has answered a prompt that,
\* lower-cased and trimmed, is not a key of its knowledge base, the answer is the
\* fallback string.
C1_FallbackForEveryUnknownPrompt ==
    \A a \in Assistants :
        (Returned(a) /\ Normalized(last.prompt) \notin DOMAIN knowledge_base[a])
            => last.response = Fallback

\* C1 as amended: whenever an assistant has answered a prompt that, lower-cased and
\* trimmed, is not a key of its knowledge base and, for the assistant of
\* agent_final.py, does not contain "weather", the answer is the fallback string.
C1_FallbackForUnknownPrompt ==
    \A a \in Assistants :
        (/\ Returned(a)
         /\ Normalized(last.prompt) \notin DOMAIN knowledge_base[a]
         /\ (a = "assistant_final" => ~MentionsWeather(last.prompt)))
            => last.response = Fallback

C1_Witness ==
    /\ Returned("assistant_final")
    /\ last.prompt = pCapital
    /\ last.response = Fallback

\* C2: whenever an assistant of either script has answered a prompt that is a key
\* of its knowledge base, the answer is exactly the string the knowledge base maps
\* the key to, and for the key "name" it is the string built from the agent's name,
\* whatever calls came before.
C2_KnownKeyExactString ==
    \A a \in Assistants :
        (Returned(a) /\ last.prompt \in DOMAIN knowledge_base[a])
            => /\ last.response = knowledge_base[a][last.prompt]
               /\ last.prompt = kName
                      => last.response =
                             T(<<"M", "y", " ", "n", "a", "m", "e", " ", "i", "s", " ">>)
                                 \o name[a] \o
                             T(<<".", " ", "W", "h", "a", "t", "'", "s", " ", "y", "o", "u",
                                 "r", "s", "?">>)

C2_Witness ==
    /\ Returned("assistant")
    /\ last.prompt = kName
    /\ name["assistant"] = T(<<"A", "d", "a">>)
    /\ last.response = T(<<"M", "y", " ", "n", "a", "m", "e", " ", "i", "s", " ", "A", "d", "a",
                           ".", " ", "W", "h", "a", "t", "'", "s", " ", "y", "o", "u", "r", "s",
                           "?">>)

\* the messages sent to agent a, in the order of the sends
RECURSIVE SentTo(_, _)
SentTo(log, a) ==
    IF log = <<>> THEN <<>>
    ELSE IF Head(log).recipient = a
         THEN <<Head(log).message>> \o SentTo(Tail(log), a)
         ELSE SentTo(Tail(log), a)

\* C3: after any sequence of send_message calls, every agent's message_inbox is
\* exactly the sequence of the messages sent to it, in the order of the sends.
C3_InboxIsSendsInOrder ==
    \A a \in Agents : message_inbox[a] = SentTo(sent, a)

C3_Witness ==
    /\ Len(sent) = 2
    /\ message_inbox["agent_b"] =
           <<WeeklyReport,
             T(<<"R", "e", "p", "o", "r", "t", " ", "a", "t", "t", "a", "c", "h", "e", "d", "."
                 >>)>>
    /\ last.op = "send_message"
    /\ last.agent = "agent_b"

\* what C4 says act returns for a node X of graph G
Connections(G, X) ==
    IF Neighbors(G, X) = <<>> THEN NoConnectionsMessage(X)
    ELSE ConnectionsMessage(X, Neighbors(G, X))

\* C4 as stated: whenever the graph agent has answered "Who is connected to X?" for
\* a node X of its graph, the answer lists exactly the neighbours of X, or says
\* that X has no connections.
C4_NeighboursOfPresentNode ==
    \A i \in 1..Len(graph.nodes) :
        (Returned("graph_agent") /\ last.prompt = QueryFor(graph.nodes[i]))
            => last.response = Connections(graph, graph.nodes[i])

\* C5 as stated: whenever the graph agent has answered "Who is connected to X?" for
\* an X that is not a node of its graph, the answer is the "does not exist" message
\* (for X as written, or lower-cased, or as the code parsed it).
C5_AbsentNodeDoesNotExist ==
    \A X \in QueryNodes :
        (Returned("graph_agent") /\ last.prompt = QueryFor(X) /\ ~HasNode(graph, X))
            => last.response \in
                   {NotExistMessage(t) : t \in {X, Lower(X), target_node(last.prompt)}}

\* the response that reports a failure of the weather call
IsApology(response) == \E f \in Failures : response = weather_apology(City, f.e)

\* main has processed the weather prompt, whose weather client call ended with an
\* exception, and has recorded the report of the failure
WeatherFailureReported ==
    \E i \in 1..Len(done) :
        /\ done[i].prompt = pWeather
        /\ done[i].failure # NoFailure
        /\ IsApology(done[i].response)

\* main can execute its next statement: it has one, it has not been ended by an
\* exception, and no call is pending
MainRunnable == pc \in 1..Len(MainProgram) /\ ~MainAborted /\ inflight = {}

\* a step in which the pending weather request ends because its weather client
\* call ended with an exception
WeatherCallFails == inflight # {} /\ inflight' = {} /\ last'.failure # NoFailure

\* the exception is an instance of Exception
IsException(f) == \E i \in 1..Len(f.exc) : f.exc[i] = "Exception"

\* the step reports the failure and main goes on: act returns the apology with
\* the text of the exception, no agent's state changes, main records the response
\* and can execute its next statement, the prompt "who are you?"
FailureIsReported ==
    /\ last'.status = "returned"
    /\ last'.response =
           T(<<"S", "o", "r", "r", "y", ",", " ", "I", " ", "c", "o", "u", "l", "d", "n", "'",
               "t", " ", "g", "e", "t", " ", "t", "h", "e", " ", "w", "e", "a", "t", "h", "e",
               "r", " ", "f", "o", "r", " ", "B", "a", "n", "g", "a", "l", "o", "r", "e", ".",
               " ", "E", "r", "r", "o", "r", ":", " ">>)
               \o last'.failure.e
    /\ UNCHANGED agentState
    /\ done' = Append(done, last')
    /\ MainProgram[pc'].k = "act"
    /\ MainProgram[pc'].p = pWho
    /\ MainRunnable'

\* C6 as stated: whenever the weather client call fails with any exception, act
\* returns "Sorry, I couldn't get the weather for Bangalore. Error: <text>", no
\* agent's state changes, and main goes on with the remaining prompts and queries.
C6_AnyExceptionIsReported ==
    [][WeatherCallFails => FailureIsReported]_vars

\* C6 as amended: whenever the weather client call fails with an exception that is
\* an instance of Exception, act returns the apology string, no agent's state
\* changes and main goes on, and after such a report main is never ended by an
\* exception; when the exception derives from BaseException only
\* (KeyboardInterrupt, CancelledError, SystemExit) it is propagated: act returns
\* nothing, no agent's state changes, and main ends before its next prompt.
C6_WeatherFailureIsReported ==
    /\ [][(WeatherCallFails /\ IsException(last'.failure)) => FailureIsReported]_vars
    /\ [][(WeatherCallFails /\ ~IsException(last'.failure)) =>
              /\ last'.status = "raised"
              /\ UNCHANGED agentState
              /\ done' = done
              /\ ~MainRunnable']_vars
    /\ [](WeatherFailureReported => ~MainAborted)
    /\ [](MainAborted => (pc = 8 /\ ~IsException(last.failure)))

C6_Witness ==
    /\ WeatherFailureReported
    /\ pc = MainEnd
    /\ Len(done) = 9
    /\ done[9].prompt = QueryFor(nJanitor)

\* C7: in main of agent_final.py at most one call is in progress; a call in progress
\* at a suspension is the weather request of the assistant and is the most recent
\* call started; and while it is pending the only step is its own completion,
\* which changes no agent's state.
C7_OneOperationAtATime ==
    /\ [](/\ Cardinality(inflight) <= 1
          /\ \A c \in inflight :
                 /\ c.agent = "assistant_final"
                 /\ is_weather_request(c.prompt)
                 /\ last = Call(c.agent, c.op, c.prompt, "suspended", <<>>)
          /\ last.status = "suspended" => inflight # {})
    /\ [][inflight # {} => (inflight' = {} /\ pc' = pc /\ UNCHANGED agentState)]_vars

C7_Witness ==
    /\ inflight = {[agent |-> "assistant_final", op |-> "act", prompt |-> pWeather]}
    /\ last.status = "suspended"
    /\ pc = 8

\* C8: whenever an assistant has answered a prompt (one that does not reach the
\* weather call, for agent_final.py), the answer is the one the same assistant
\* gives to the prompt lower-cased and stripped of surrounding whitespace.
C8_CaseAndWhitespaceInsensitive ==
    /\ Returned("assistant") =>
           last.response =
               AssistantAgent_act(knowledge_base["assistant"], Normalized(last.prompt))
    /\ (Returned("assistant_final") /\ ~MentionsWeather(last.prompt)) =>
           /\ ~is_weather_request(Normalized(last.prompt))
           /\ last.response =
                  lookup(knowledge_base["assistant_final"], Normalized(last.prompt))

C8_Witness ==
    /\ Returned("assistant")
    /\ last.prompt = <<9, 11>> \o UpperAscii(kHello) \o <<160, 13, 10>>
    /\ last.response = rHello

\* C9: a send_message step changes no inbox but the recipient's and no name, role,
\* knowledge base or graph; every other step (an act call, or its completion)
\* changes no agent's inbox, name, role, knowledge base or graph.
C9_Frame ==
    [][/\ sent' # sent =>
             /\ \A a \in Agents \ {sent'[Len(sent')].recipient} :
                    message_inbox'[a] = message_inbox[a]
             /\ UNCHANGED <<name, role, knowledge_base, graph>>
       /\ sent' = sent => UNCHANGED agentState]_vars

C9_Witness ==
    /\ message_inbox["agent_b"] = <<WeeklyReport>>
    /\ message_inbox["agent_a"] = <<>>
    /\ message_inbox["assistant_final"] =
           <<T(<<"R", "e", "p", "o", "r", "t", " ", "a", "t", "t", "a", "c", "h", "e", "d", "."
                 >>)>>
    /\ Returned("assistant_final")
    /\ last.prompt = pWeather

\* C10: with the same agent name, on a prompt that lower-cased does not contain
\* "weather" the assistant of agent_final.py answers what the assistant of
\* agent.py answers, and the other way round; on a prompt that contains "weather"
\* the assistant of agent_final.py answers with the weather text for Bangalore.
C10_ScriptsAgreeAwayFromWeather ==
    /\ (/\ name["assistant"] = name["assistant_final"]
        /\ Returned("assistant_final")
        /\ ~MentionsWeather(last.prompt)) =>
           last.response = AssistantAgent_act(knowledge_base["assistant"], last.prompt)
    /\ (/\ name["assistant"] = name["assistant_final"]
        /\ Returned("assistant")
        /\ ~MentionsWeather(last.prompt)) =>
           /\ ~is_weather_request(last.prompt)
           /\ last.response = lookup(knowledge_base["assistant_final"], last.prompt)
    /\ (Returned("assistant_final") /\ MentionsWeather(last.prompt)) =>
           \/ IsApology(last.response)
           \/ \E t \in Temperatures, d \in Descriptions :
                  last.response = weather_report(City, t, d)

C10_Witness ==
    /\ name["assistant"] = name["assistant_final"]
    /\ Returned("assistant_final")
    /\ last.prompt = UpperAscii(kHelp)
    /\ last.response = knowledge_base["assistant"][kHelp]

====
